---- MODULE Spec2Model ----
(***************************************************************************)
(* QuillBoard front end: the session store (AuthProvider), the durable     *)
(* browser storage it persists to, the role-gated route table              *)
(* (ProtectedRoute / AppRoutes), the API client (ApiClient.request) and    *)
(* the pages that call it: the registration form, the three article lists  *)
(* and the analytics page.                                                 *)
(*                                                                         *)
(* Values that may be absent (null in the source, a missing storage key)   *)
(* are options: None, or Some(v).  A storage string holding a serialized   *)
(* user is a sequence of lexical tokens, so that JSON.stringify and        *)
(* JSON.parse are real conversions.                                        *)
(*                                                                         *)
(* The state updates queued by one effect or one event handler are         *)
(* committed in a single render, so each handler is one step; the routes   *)
(* render again in that step, and a <Navigate replace> they return has     *)
(* taken effect when the step ends.                                        *)
(*                                                                         *)
(* An API operation is asynchronous: the handler runs to its await in one  *)
(* step (the call is in flight), the remote system answers in another, and *)
(* the rest of the handler runs when the answer is delivered.  Answers are *)
(* delivered in any order.                                                 *)
(***************************************************************************)
EXTENDS Naturals, Sequences, FiniteSets, TLC

VARIABLES
    token,       \* AuthProvider state: string | null
    user,        \* AuthProvider state: User | null
    isAdmin,     \* AuthProvider state: boolean
    isLoading,   \* AuthProvider state: boolean
    storage,     \* localStorage: the keys token, user, isAdmin
    mounted,     \* "mounting": first render done, mount effect pending;
                 \* "ready": mount effect has run; "crashed": it threw
    history,     \* browser session history; its last entry is the location
    view,        \* the element on screen
    redirects,   \* targets of the <Navigate replace> issued by the last step
    requested,   \* the path asked for by the last navigation, if it was one
    lastOp,      \* the operation that produced this state
    probe,       \* arguments of the latest login, whether it replaced another
                 \* identity (over), and what followed it (stage)
    loadingSets, \* setIsLoading(false) calls since the document was loaded
    net,         \* API operations awaited by a handler of the page
    done,        \* the operation whose await the last step resumed, if any
    server,      \* the remote system's articles: id -> status
    page         \* local state of the page component on screen

vars == <<token, user, isAdmin, isLoading, storage, mounted, history, view,
          redirects, requested, lastOp, probe, loadingSets,
          net, done, server, page>>

pageVars == <<net, done, server, page>>

session == <<token, user, isAdmin, isLoading>>

\* ---------------------------------------------------------------- bounds

\* Entries the session history keeps; older entries are dropped.
MaxHistory == 2

\* ---------------------------------------------------------------- values

None == <<>>
Some(x) == <<x>>

\* Opaque token strings; the type is string, so the empty string is one.
Tokens == {"", "t1"}

\* interface User
Users ==
    { [id |-> "1", username |-> "alice", email |-> "a@x.com"],
      [id |-> "2", username |-> "bob", email |-> "b@x.com"] }

\* JSON.stringify of a User: the object's lexical tokens, keys in order.
JSONstringify(u) ==
    <<"{", "id", u.id, "username", u.username, "email", u.email, "}">>

\* JSON.parse: ok = FALSE is a thrown SyntaxError.  "null" parses to null.
JSONparse(s) ==
    IF s = <<"null">>
    THEN [ok |-> TRUE, value |-> None]
    ELSE IF /\ Len(s) = 8
            /\ s[1] = "{" /\ s[2] = "id" /\ s[4] = "username"
            /\ s[6] = "email" /\ s[8] = "}"
         THEN [ok |-> TRUE,
               value |-> Some([id |-> s[3], username |-> s[5], email |-> s[7]])]
         ELSE [ok |-> FALSE, value |-> None]

\* Boolean.prototype.toString
BoolToString(b) == IF b THEN "true" ELSE "false"

\* What the user key may hold when the application starts: a serialized
\* user, the empty string, the text null, or text cut short.
StoredUserStrings ==
    {JSONstringify(u) : u \in Users} \cup {<<>>, <<"null">>, <<"{", "id">>}

StoredIsAdminStrings == {"true", "false", "1"}

Storages ==
    [token : {None} \cup {Some(t) : t \in Tokens},
     user : {None} \cup {Some(s) : s \in StoredUserStrings},
     isAdmin : {None} \cup {Some(s) : s \in StoredIsAdminStrings}]

\* Truthiness of localStorage.getItem(...) results: null and "" are falsy.
TruthyString(o) == o # None /\ o[1] # ""
TruthyText(o) == o # None /\ Len(o[1]) > 0

\* ------------------------------------------------------- session store

\* useState initial values of AuthProvider.
InitialToken == None
InitialUser == None
InitialIsAdmin == FALSE
\* useState(false) for isLoading.
M_InitialIsLoading_False == FALSE

InitialIsLoading == TRUE

\* The mount effect of AuthProvider, on the storage it reads.  The result
\* names the state updates it queued; threw = TRUE when JSON.parse threw,
\* in which case the statements after it were not executed.
initialize(st) ==
    LET storedToken == st.token
        storedUser == st.user
        storedIsAdmin == st.isAdmin
    IN  IF TruthyString(storedToken) /\ TruthyText(storedUser)
        THEN LET parsed == JSONparse(storedUser[1])
             IN  IF parsed.ok
                 THEN [threw |-> FALSE, populated |-> TRUE,
                       token |-> storedToken,
                       user |-> parsed.value,
                       isAdmin |-> (storedIsAdmin = Some("true")),
                       isLoading |-> FALSE]
                 ELSE [threw |-> TRUE, populated |-> FALSE,
                       token |-> InitialToken, user |-> InitialUser,
                       isAdmin |-> InitialIsAdmin,
                       isLoading |-> InitialIsLoading]
        ELSE [threw |-> FALSE, populated |-> FALSE,
              token |-> InitialToken, user |-> InitialUser,
              isAdmin |-> InitialIsAdmin, isLoading |-> FALSE]

\* The optional third parameter of login: adminStatus = false.
AdminStatus(arg) == IF arg = None THEN FALSE ELSE arg[1]

\* login without localStorage.setItem('isAdmin', ...).
M_login_IsAdminNotPersisted(newToken, newUser, adminStatus) ==
    [token |-> Some(newToken),
     user |-> Some(newUser),
     isAdmin |-> adminStatus,
     storage |-> [token |-> Some(newToken),
                  user |-> Some(JSONstringify(newUser)),
                  isAdmin |-> None]]

\* login without setIsAdmin(adminStatus): the flag in memory stays false.
M_login_IsAdminNotSet(newToken, newUser, adminStatus) ==
    [token |-> Some(newToken),
     user |-> Some(newUser),
     isAdmin |-> FALSE,
     storage |-> [token |-> Some(newToken),
                  user |-> Some(JSONstringify(newUser)),
                  isAdmin |-> Some(BoolToString(adminStatus))]]

\* login(newToken, newUser, adminStatus): the three state updates and the
\* three localStorage.setItem calls.
login(newToken, newUser, adminStatus) ==
    [token |-> Some(newToken),
     user |-> Some(newUser),
     isAdmin |-> adminStatus,
     storage |-> [token |-> Some(newToken),
                  user |-> Some(JSONstringify(newUser)),
                  isAdmin |-> Some(BoolToString(adminStatus))]]

\* logout without localStorage.removeItem('isAdmin').
M_logout_KeepsIsAdminKey(st) ==
    [token |-> None,
     user |-> None,
     isAdmin |-> FALSE,
     storage |-> [st EXCEPT !.token = None, !.user = None]]

\* logout writing isAdmin = "false" where it should remove the key.
M_logout_WritesIsAdminFalse(st) ==
    [token |-> None,
     user |-> None,
     isAdmin |-> FALSE,
     storage |-> [st EXCEPT !.token = None, !.user = None,
                            !.isAdmin = Some("false")]]

\* logout(): the three state updates and the three removeItem calls.
logout(st) ==
    [token |-> None,
     user |-> None,
     isAdmin |-> FALSE,
     storage |-> [st EXCEPT !.token = None, !.user = None, !.isAdmin = None]]

\* ----------------------------------------------------------- routing

\* ProtectedRoute with the user check made before the loading check.
M_ProtectedRoute_UserFirst(u, admin, loading, adminOnly) ==
    IF u = None THEN "to_login"
    ELSE IF loading THEN "loading"
    ELSE IF adminOnly /\ ~admin THEN "to_dashboard"
    ELSE "children"

\* ProtectedRoute without the adminOnly check.
M_ProtectedRoute_NoAdminCheck(u, admin, loading, adminOnly) ==
    IF loading THEN "loading"
    ELSE IF u = None THEN "to_login"
    ELSE "children"

\* ProtectedRoute without the user check.
M_ProtectedRoute_NoUserCheck(u, admin, loading, adminOnly) ==
    IF loading THEN "loading"
    ELSE IF adminOnly /\ ~admin THEN "to_dashboard"
    ELSE "children"

\* ProtectedRoute: what the guard returns for a session and its flavour.
\* !user is true of null only: every other value user can hold is an object.
ProtectedRoute(u, admin, loading, adminOnly) ==
    IF loading THEN "loading"
    ELSE IF u = None THEN "to_login"
    ELSE IF adminOnly /\ ~admin THEN "to_dashboard"
    ELSE "children"

\* <Routes> of AppRoutes: the element of each path and its guard.  One
\* article id stands for /article/:id and one unknown path for "*".
AdminChildren ==
    [p \in {"/admin/dashboard", "/admin/articles", "/admin/pending",
            "/admin/users", "/admin/analytics"} |->
        CASE p = "/admin/dashboard" -> "AdminDashboard"
          [] p = "/admin/articles" -> "AdminArticles"
          [] p = "/admin/pending" -> "AdminPending"
          [] p = "/admin/users" -> "AdminUsers"
          [] p = "/admin/analytics" -> "AdminAnalytics"]

PublicPaths == {"/", "/login", "/register", "/article/a1", "/unknown"}
UserPaths == {"/dashboard", "/create-article", "/my-articles"}
AdminPaths == {"/admin"} \cup DOMAIN AdminChildren

\* The paths the model requests: every public and user path, and of the
\* admin routes the layout itself and two of its five children.
Paths ==
    PublicPaths \cup UserPaths \cup {"/admin", "/admin/dashboard", "/admin/users"}

\* The route table with adminOnly left off the /admin route.
M_Route_AdminNotAdminOnly(p) ==
    CASE p = "/" -> [element |-> "Home", guard |-> "public"]
      [] p = "/login" -> [element |-> "Login", guard |-> "public"]
      [] p = "/register" -> [element |-> "Register", guard |-> "public"]
      [] p = "/article/a1" -> [element |-> "ArticleDetails", guard |-> "public"]
      [] p = "/dashboard" -> [element |-> "Dashboard", guard |-> "auth"]
      [] p = "/create-article" -> [element |-> "CreateArticle", guard |-> "auth"]
      [] p = "/my-articles" -> [element |-> "MyArticles", guard |-> "auth"]
      [] p = "/admin" -> [element |-> "AdminLayout", guard |-> "auth"]
      [] p \in DOMAIN AdminChildren ->
            [element |-> AdminChildren[p], guard |-> "auth"]
      [] OTHER -> [element |-> "NotFound", guard |-> "public"]

Route(p) ==
    CASE p = "/" -> [element |-> "Home", guard |-> "public"]
      [] p = "/login" -> [element |-> "Login", guard |-> "public"]
      [] p = "/register" -> [element |-> "Register", guard |-> "public"]
      [] p = "/article/a1" -> [element |-> "ArticleDetails", guard |-> "public"]
      [] p = "/dashboard" -> [element |-> "Dashboard", guard |-> "auth"]
      [] p = "/create-article" -> [element |-> "CreateArticle", guard |-> "auth"]
      [] p = "/my-articles" -> [element |-> "MyArticles", guard |-> "auth"]
      [] p = "/admin" -> [element |-> "AdminLayout", guard |-> "admin"]
      [] p \in DOMAIN AdminChildren ->
            [element |-> AdminChildren[p], guard |-> "admin"]
      [] OTHER -> [element |-> "NotFound", guard |-> "public"]

UserViews == {"Dashboard", "CreateArticle", "MyArticles"}
AdminViews == {"AdminLayout"} \cup {AdminChildren[p] : p \in DOMAIN AdminChildren}

\* What the matched route renders: a view, or a <Navigate to=... replace />.
RouteOutcome(p, u, admin, loading) ==
    LET r == Route(p)
        g == ProtectedRoute(u, admin, loading, r.guard = "admin")
    IN  IF r.guard = "public" THEN [redirect |-> FALSE, view |-> r.element]
        ELSE CASE g = "loading" -> [redirect |-> FALSE, view |-> "Loading"]
               [] g = "children" -> [redirect |-> FALSE, view |-> r.element]
               [] g = "to_login" -> [redirect |-> TRUE, to |-> "/login"]
               [] g = "to_dashboard" -> [redirect |-> TRUE, to |-> "/dashboard"]

\* <Navigate> without replace: the redirect is pushed.
M_ReplaceLast_Push(h, p) == Append(h, p)

\* The replace of <Navigate to=... replace />.
ReplaceLast(h, p) == [h EXCEPT ![Len(h)] = p]

\* navigate(to): a new entry; the oldest is dropped when the history is full.
Push(h, p) ==
    IF Len(h) < MaxHistory THEN Append(h, p) ELSE Append(Tail(h), p)

\* Rendering the location under a session until a view is on screen: a
\* <Navigate replace> replaces the last history entry and the new location
\* is rendered in turn.  A redirect from /dashboard can only go to /login,
\* which is public, so two rounds settle every location.
Settle(h, u, admin, loading) ==
    LET o1 == RouteOutcome(h[Len(h)], u, admin, loading)
    IN  IF ~o1.redirect
        THEN [history |-> h, view |-> o1.view, redirects |-> <<>>]
        ELSE LET o2 == RouteOutcome(o1.to, u, admin, loading)
             IN  IF ~o2.redirect
                 THEN [history |-> ReplaceLast(h, o1.to), view |-> o2.view,
                       redirects |-> <<o1.to>>]
                 ELSE [history |-> ReplaceLast(h, o2.to),
                       view |-> Route(o2.to).element,
                       redirects |-> <<o1.to, o2.to>>]

\* ------------------------------------------------------------ API client

\* Truthiness of an optional string: undefined and "" are falsy.
Truthy(o) == o # None /\ o[1] # ""

\* a || b
Or(a, b) == IF a # None THEN a ELSE b

\* The operations of ApiClient.
AuthOps == {"registerUser", "loginUser", "registerAdmin", "loginAdmin"}
FetchOps == {"getAllArticlesAdmin", "getPendingArticles", "getUserArticles"}
MutationOps ==
    {"approveArticle", "rejectArticle", "unpublishArticle",
     "deleteArticleAdmin", "deleteArticle"}
ApiOps ==
    AuthOps \cup FetchOps \cup MutationOps
        \cup {"getUserDashboard", "getAllArticles", "getArticleById",
              "createArticle", "updateArticle", "getAdminDashboard",
              "getAllUsers", "getAnalytics"}

\* Articles of the remote system; "none" is an article that is not there.
Articles == {"A1"}
ArticleStatuses == {"pending", "published", "rejected", "none"}

\* What a response body's payload may carry: the registration answer, an
\* article list, analytics data.
NoPayload ==
    [token |-> None, user |-> None, admin |-> None, articles |-> {},
     data |-> None]

\* A response body: text that is not JSON, or a JSON object with its
\* success flag (absent is falsy), its message field if any, its payload.
NotJSON ==
    [json |-> FALSE, success |-> FALSE, message |-> None,
     payload |-> NoPayload]
JsonBody(s, m, p) ==
    [json |-> TRUE, success |-> s, message |-> m, payload |-> p]

\* The fetch promise: rejected (failed), or resolved with a Response.
NetworkError == [failed |-> TRUE, status |-> 0, body |-> NotJSON]
Http(st, b) == [failed |-> FALSE, status |-> st, body |-> b]

\* HTTP statuses answered, inside and outside the success range.
HttpStatuses == {200, 204, 301, 401, 404, 500}
Messages == {"", "X", "Y"}

\* Response.ok
ok(status) == status \in 200..299

FallbackMessage == "API request failed"
FetchFailedMessage == "Failed to fetch"
SyntaxErrorMessage == "Unexpected token"

\* if (!response.ok): a 2xx status is taken for a failure.
M_request_OkIsFailure(resp) ==
    IF resp.failed
    THEN [threw |-> TRUE, message |-> FetchFailedMessage, data |-> NotJSON]
    ELSE IF ~resp.body.json
    THEN [threw |-> TRUE, message |-> SyntaxErrorMessage, data |-> NotJSON]
    ELSE IF ok(resp.status)
    THEN [threw |-> TRUE,
          message |-> IF Truthy(resp.body.message)
                      THEN resp.body.message[1] ELSE FallbackMessage,
          data |-> NotJSON]
    ELSE [threw |-> FALSE, message |-> "", data |-> resp.body]

\* ApiClient.request, from the point where the fetch promise settles:
\* await fetch(...) rejects, or response.json() rejects, or the status is
\* not ok and an Error is thrown, or the parsed body is returned.  The
\* catch clause logs and throws the same error again.
request(resp) ==
    IF resp.failed
    THEN [threw |-> TRUE, message |-> FetchFailedMessage, data |-> NotJSON]
    ELSE IF ~resp.body.json
    THEN [threw |-> TRUE, message |-> SyntaxErrorMessage, data |-> NotJSON]
    ELSE IF ~ok(resp.status)
    THEN [threw |-> TRUE,
          message |-> IF Truthy(resp.body.message)
                      THEN resp.body.message[1] ELSE FallbackMessage,
          data |-> NotJSON]
    ELSE [threw |-> FALSE, message |-> "", data |-> resp.body]

\* An operation that calls fetch twice.
M_ApiCall_TwoFetches(op, arg, tab) ==
    [op |-> op, arg |-> arg, tab |-> tab, fetches |-> 2,
     phase |-> "sent", resp |-> None]

\* An operation of ApiClient is called with arg (an article id, a period,
\* or "") by a handler that reads tab after the await: request is entered
\* once and calls fetch once; the call is in flight.
ApiCall(op, arg, tab) ==
    [op |-> op, arg |-> arg, tab |-> tab, fetches |-> 1,
     phase |-> "sent", resp |-> None]

\* ----------------------------------------------------------- page state

\* Two of the three analytics periods; two passwords a visitor may type.
Periods == {"week", "month"}
Passwords == {"p1", "p2"}

\* useState initial values of the page components; name is the component.
NewPage(name, tab) ==
    [name |-> name,
     effectRan |-> FALSE,
     isLoading |-> name \notin {"Register", "Login", "CreateArticle"},
     articles |-> {},
     toast |-> None,
     activeTab |-> tab,
     password |-> "",
     confirmPassword |-> "",
     selectedPeriod |-> "month",
     analyticsData |-> None,
     searchTerm |-> "",
     dashboardData |-> None,
     was |-> name]

\* No page component with API calls is on screen.
NoPage == [NewPage("none", "user") EXCEPT !.isLoading = FALSE]

NoArticles == [a \in Articles |-> "none"]

\* The specifications of the session store and of the guard leave the pages
\* out: no call is in flight and no page state changes.
PagesIdle ==
    /\ net = <<>>
    /\ done = None
    /\ server = NoArticles
    /\ page = NoPage

\* ------------------------------------------------------------ actions

Location == history[Len(history)]

\* The login arguments a caller may pass: the third one may be omitted.
AdminArgs == {None, Some(TRUE), Some(FALSE)}

\* What follows the latest login: a reload, then the mount effect; or a
\* logout, then a second logout.
ProbeAfter(op) ==
    IF probe = None THEN None
    ELSE CASE op = "reload" /\ probe[1].stage = "login" ->
                Some([probe[1] EXCEPT !.stage = "reload"])
           [] op = "initialize" /\ probe[1].stage = "reload" ->
                Some([probe[1] EXCEPT !.stage = "initialize"])
           [] op = "logout" /\ probe[1].stage = "login" ->
                Some([probe[1] EXCEPT !.stage = "logout"])
           [] op = "logout" /\ probe[1].stage = "logout" ->
                Some([probe[1] EXCEPT !.stage = "logout2"])
           [] OTHER -> None

\* The document is loaded at some URL with some storage left by earlier
\* visits: AuthProvider holds its initial state and the first render is
\* on screen.
Init ==
    /\ storage \in Storages
    /\ \E p \in Paths :
          /\ history = <<p>>
          /\ requested = Some(p)
          /\ view = Settle(<<p>>, InitialUser, InitialIsAdmin,
                           InitialIsLoading).view
    /\ token = InitialToken
    /\ user = InitialUser
    /\ isAdmin = InitialIsAdmin
    /\ isLoading = InitialIsLoading
    /\ mounted = "mounting"
    /\ redirects = <<>>
    /\ lastOp = "load"
    /\ probe = None
    /\ loadingSets = 0
    /\ PagesIdle

\* The mount effect of AuthProvider runs, and the routes render again.  A
\* SyntaxError thrown by JSON.parse is caught by no error boundary: React
\* unmounts the tree and nothing is on screen.
Initialize ==
    /\ mounted = "mounting"
    /\ LET r == initialize(storage)
       IN  IF r.threw
           THEN /\ mounted' = "crashed"
                /\ view' = "Blank"
                /\ UNCHANGED <<token, user, isAdmin, isLoading, history,
                               loadingSets>>
                /\ redirects' = <<>>
           ELSE /\ mounted' = "ready"
                /\ token' = r.token
                /\ user' = r.user
                /\ isAdmin' = r.isAdmin
                /\ isLoading' = r.isLoading
                /\ loadingSets' = loadingSets + 1
                /\ LET s == Settle(history, r.user, r.isAdmin, r.isLoading)
                   IN  /\ history' = s.history
                       /\ view' = s.view
                       /\ redirects' = s.redirects
    /\ lastOp' = "initialize"
    /\ probe' = ProbeAfter("initialize")
    /\ UNCHANGED <<storage, requested>>
    /\ UNCHANGED pageVars

\* A consumer calls login(newToken, newUser, adminStatus?).
Login(newToken, newUser, adminArg) ==
    /\ mounted = "ready"
    /\ LET r == login(newToken, newUser, AdminStatus(adminArg))
           s == Settle(history, r.user, r.isAdmin, isLoading)
       IN  /\ token' = r.token
           /\ user' = r.user
           /\ isAdmin' = r.isAdmin
           /\ storage' = r.storage
           /\ history' = s.history
           /\ view' = s.view
           /\ redirects' = s.redirects
    /\ lastOp' = "login"
    /\ requested' = None
    /\ probe' = Some([token |-> newToken, user |-> newUser,
                      adminArg |-> adminArg, stage |-> "login",
                      over |-> /\ token \notin {None, Some(newToken)}
                               /\ user \notin {None, Some(newUser)}
                               /\ isAdmin # AdminStatus(adminArg)])
    /\ UNCHANGED <<isLoading, mounted, loadingSets>>
    /\ UNCHANGED pageVars

\* A consumer calls logout(): the admin sidebar's button does just that.
Logout ==
    /\ mounted = "ready"
    /\ LET r == logout(storage)
           s == Settle(history, r.user, r.isAdmin, isLoading)
       IN  /\ token' = r.token
           /\ user' = r.user
           /\ isAdmin' = r.isAdmin
           /\ storage' = r.storage
           /\ history' = s.history
           /\ view' = s.view
           /\ redirects' = s.redirects
    /\ lastOp' = "logout"
    /\ requested' = None
    /\ probe' = ProbeAfter("logout")
    /\ UNCHANGED <<isLoading, mounted, loadingSets>>
    /\ UNCHANGED pageVars

\* Views that show the Navbar; its logout item is there for a user only.
NavbarViews == {"Home", "ArticleDetails", "Dashboard", "MyArticles", "CreateArticle"}

\* Navbar.handleLogout: logout(), then navigate('/'), in one event.
NavbarLogout ==
    /\ mounted = "ready"
    /\ view \in NavbarViews
    /\ user # None
    /\ LET r == logout(storage)
           s == Settle(Push(history, "/"), r.user, r.isAdmin, isLoading)
       IN  /\ token' = r.token
           /\ user' = r.user
           /\ isAdmin' = r.isAdmin
           /\ storage' = r.storage
           /\ history' = s.history
           /\ view' = s.view
           /\ redirects' = s.redirects
    /\ lastOp' = "logout"
    /\ requested' = Some("/")
    /\ probe' = ProbeAfter("logout")
    /\ UNCHANGED <<isLoading, mounted, loadingSets>>
    /\ UNCHANGED pageVars

\* The router is asked for path p (a link, navigate(p)): a new history
\* entry, rendered under the current session.
NavigateTo(p) ==
    /\ LET s == Settle(Push(history, p), user, isAdmin, isLoading)
       IN  /\ history' = s.history
           /\ view' = s.view
           /\ redirects' = s.redirects
    /\ requested' = Some(p)
    /\ lastOp' = "navigate"
    /\ probe' = None
    /\ UNCHANGED <<token, user, isAdmin, isLoading, storage, mounted,
                   loadingSets>>
    /\ UNCHANGED pageVars

Navigate(p) ==
    /\ mounted = "ready"
    /\ NavigateTo(p)

\* The browser reloads the document: storage and history stay, AuthProvider
\* is constructed anew and the location is rendered under its initial state.
Reload ==
    /\ token' = InitialToken
    /\ user' = InitialUser
    /\ isAdmin' = InitialIsAdmin
    /\ isLoading' = InitialIsLoading
    /\ mounted' = "mounting"
    /\ loadingSets' = 0
    /\ LET s == Settle(history, InitialUser, InitialIsAdmin, InitialIsLoading)
       IN  /\ history' = s.history
           /\ view' = s.view
           /\ redirects' = s.redirects
    /\ requested' = Some(Location)
    /\ lastOp' = "reload"
    /\ probe' = ProbeAfter("reload")
    /\ UNCHANGED storage
    /\ UNCHANGED pageVars

Next ==
    \/ Initialize
    \/ \E t \in Tokens, u \in Users, a \in AdminArgs : Login(t, u, a)
    \/ Logout
    \/ NavbarLogout
    \/ \E p \in Paths : Navigate(p)
    \/ Reload

Spec == Init /\ [][Next]_vars

\* The route guard alone, on every Session value: the session is drawn
\* freely and paths are requested under it.
GuardInit ==
    /\ token \in {None} \cup {Some(t) : t \in Tokens}
    /\ user \in {None} \cup {Some(u) : u \in Users}
    /\ isAdmin \in BOOLEAN
    /\ isLoading \in BOOLEAN
    /\ storage = [token |-> None, user |-> None, isAdmin |-> None]
    /\ mounted = "ready"
    /\ history = <<"/">>
    /\ view = "Home"
    /\ redirects = <<>>
    /\ requested = Some("/")
    /\ lastOp = "load"
    /\ probe = None
    /\ loadingSets = 0
    /\ PagesIdle

GuardNext == \E p \in Paths : NavigateTo(p)

GuardSpec == GuardInit /\ [][GuardNext]_vars

\* ------------------------------------------------- the API client alone

\* Every answer a call may get: no answer at all, or any status with any
\* body.
AllResponses ==
    {NetworkError}
        \cup {Http(st, b) :
                st \in HttpStatuses,
                b \in {NotJSON}
                        \cup {JsonBody(s, m, NoPayload) :
                                s \in BOOLEAN,
                                m \in {None} \cup {Some(x) : x \in Messages}}}

\* The record of an await that was resumed: the call, and what request
\* returned or threw.
Settled(req) ==
    [op |-> req.op, arg |-> req.arg, tab |-> req.tab,
     fetches |-> req.fetches, resp |-> req.resp[1],
     result |-> request(req.resp[1])]

\* net without its i-th call.
Without(n, i) == SubSeq(n, 1, i - 1) \o SubSeq(n, i + 1, Len(n))

\* A caller with no state of its own on the home page, nobody or an admin
\* logged in.
ApiInit ==
    /\ \E s \in {[token |-> InitialToken, user |-> InitialUser,
                  isAdmin |-> InitialIsAdmin,
                  storage |-> [token |-> None, user |-> None,
                               isAdmin |-> None]]}
                    \cup {login("t1", u, TRUE) : u \in Users} :
          /\ token = s.token
          /\ user = s.user
          /\ isAdmin = s.isAdmin
          /\ storage = s.storage
    /\ isLoading = FALSE
    /\ mounted = "ready"
    /\ history = <<"/">>
    /\ view = "Home"
    /\ redirects = <<>>
    /\ requested = Some("/")
    /\ lastOp = "load"
    /\ probe = None
    /\ loadingSets = 0
    /\ PagesIdle

\* The caller invokes an operation and awaits it.
ApiInvoke(op) ==
    /\ page.name = "none"
    /\ net = <<>>
    /\ net' = <<ApiCall(op, "", "")>>
    /\ done' = None
    /\ lastOp' = "invoke"
    /\ UNCHANGED <<token, user, isAdmin, isLoading, storage, mounted,
                   history, view, redirects, requested, probe, loadingSets,
                   server, page>>

\* The fetch promise of the call settles with resp.
ApiSettle(resp) ==
    /\ page.name = "none"
    /\ Len(net) = 1
    /\ net[1].phase = "sent"
    /\ net' = <<[net[1] EXCEPT !.phase = "replied", !.resp = Some(resp)]>>
    /\ done' = None
    /\ lastOp' = "reply"
    /\ UNCHANGED <<token, user, isAdmin, isLoading, storage, mounted,
                   history, view, redirects, requested, probe, loadingSets,
                   server, page>>

\* request logging the user out when the status is 401.
M_ApiReturn_LogoutOn401 ==
    /\ page.name = "none"
    /\ Len(net) = 1
    /\ net[1].phase = "replied"
    /\ net' = <<>>
    /\ done' = Some(Settled(net[1]))
    /\ lastOp' = "resume"
    /\ IF ~net[1].resp[1].failed /\ net[1].resp[1].status = 401
       THEN /\ token' = None
            /\ user' = None
            /\ isAdmin' = FALSE
            /\ storage' = [token |-> None, user |-> None, isAdmin |-> None]
       ELSE UNCHANGED <<token, user, isAdmin, storage>>
    /\ UNCHANGED <<isLoading, mounted, history, view, redirects, requested,
                   probe, loadingSets, server, page>>

\* request returns or throws to the caller.
ApiReturn ==
    /\ page.name = "none"
    /\ Len(net) = 1
    /\ net[1].phase = "replied"
    /\ net' = <<>>
    /\ done' = Some(Settled(net[1]))
    /\ lastOp' = "resume"
    /\ UNCHANGED <<token, user, isAdmin, isLoading, storage, mounted,
                   history, view, redirects, requested, probe, loadingSets,
                   server, page>>

ApiNext ==
    \/ \E op \in ApiOps : ApiInvoke(op)
    \/ \E resp \in AllResponses : ApiSettle(resp)
    \/ ApiReturn

ApiSpec == ApiInit /\ [][ApiNext]_vars

\* ------------------------------------------------- pages that call the API

\* Calls a page may have in flight at once.
MaxInFlight == 2

ListPages == {"AdminArticles", "AdminPending", "MyArticles"}
FormPages == {"Register", "Login", "CreateArticle"}
DataPages == {"Home", "Dashboard", "AdminDashboard"}
PageNames == {"Register", "AdminAnalytics"} \cup ListPages
                 \cup FormPages \cup DataPages

PagePath(name) ==
    CASE name = "Register" -> "/register"
      [] name = "Login" -> "/login"
      [] name = "CreateArticle" -> "/create-article"
      [] name = "Home" -> "/"
      [] name = "Dashboard" -> "/dashboard"
      [] name = "AdminDashboard" -> "/admin/dashboard"
      [] name = "AdminArticles" -> "/admin/articles"
      [] name = "AdminPending" -> "/admin/pending"
      [] name = "MyArticles" -> "/my-articles"
      [] name = "AdminAnalytics" -> "/admin/analytics"

\* The operation a page fetches its content with.
FetchOp(name) ==
    CASE name = "AdminArticles" -> "getAllArticlesAdmin"
      [] name = "AdminPending" -> "getPendingArticles"
      [] name = "MyArticles" -> "getUserArticles"
      [] name = "AdminAnalytics" -> "getAnalytics"

\* The mutating handlers a list page has.
PageMutations(name) ==
    CASE name = "AdminArticles" ->
            {"approveArticle", "rejectArticle", "unpublishArticle",
             "deleteArticleAdmin"}
      [] name = "AdminPending" -> {"approveArticle", "rejectArticle"}
      [] name = "MyArticles" -> {"deleteArticle"}
      [] OTHER -> {}

\* Whether the page renders the button of op for a listed article: the
\* admin list shows approve and reject for a pending article and unpublish
\* for a published one; every other button is always there.
Button(name, op, status) ==
    IF name = "AdminArticles"
    THEN CASE op \in {"approveArticle", "rejectArticle"} -> status = "pending"
           [] op = "unpublishArticle" -> status = "published"
           [] OTHER -> TRUE
    ELSE TRUE

\* The remote system.  What an article list holds: the pending articles for
\* getPendingArticles, every article there is for the other two.
Listing(op, srv) ==
    LET shown == IF op = "getPendingArticles"
                 THEN {a \in Articles : srv[a] = "pending"}
                 ELSE IF op = "getAllArticles"
                 THEN {a \in Articles : srv[a] = "published"}
                 ELSE {a \in Articles : srv[a] # "none"}
    IN  {[id |-> a, status |-> srv[a]] : a \in shown}

\* Whether the remote system accepts a mutation, and what it does to the
\* article: an unpublished article is taken to be rejected.
Applies(op, a, srv) ==
    CASE op \in {"approveArticle", "rejectArticle"} -> srv[a] = "pending"
      [] op = "unpublishArticle" -> srv[a] = "published"
      [] OTHER -> srv[a] # "none"

Apply(op, a, srv) ==
    [srv EXCEPT ![a] =
        CASE op = "approveArticle" -> "published"
          [] op \in {"rejectArticle", "unpublishArticle"} -> "rejected"
          [] OTHER -> "none"]

\* Answers to a page's call, each with the articles the remote system holds
\* afterwards: no answer, a failure status with a message, for the
\* registration calls a success status whose body says success: false, or
\* the operation's success.
Failures == {NetworkError, Http(500, JsonBody(FALSE, Some("X"), NoPayload))}

Refusal == Http(200, JsonBody(FALSE, Some("X"), NoPayload))

\* Who is logged in when a page behind a guard is opened.
PageUser == CHOOSE u \in Users : u.username = "alice"

\* A success status whose body says success: false and yet carries a token
\* and a user.
RefusalWithToken ==
    Http(200, JsonBody(FALSE, Some("X"),
                       [NoPayload EXCEPT !.token = Some("t1"),
                                         !.user = Some(PageUser)]))

Successes(req, srv) ==
    CASE req.op = "registerUser" ->
            {[resp |-> Http(201, JsonBody(TRUE, None,
                        [NoPayload EXCEPT !.token = Some(t),
                                          !.user = Some(u)])),
              server |-> srv] : t \in Tokens, u \in Users}
      [] req.op = "registerAdmin" ->
            {[resp |-> Http(201, JsonBody(TRUE, None,
                        [NoPayload EXCEPT !.token = Some(t),
                                          !.admin = Some(u)])),
              server |-> srv] : t \in Tokens, u \in Users}
      [] req.op = "loginUser" ->
            {[resp |-> Http(200, JsonBody(TRUE, None,
                        [NoPayload EXCEPT !.token = Some(t),
                                          !.user = Some(u)])),
              server |-> srv] : t \in Tokens, u \in Users}
      [] req.op = "loginAdmin" ->
            {[resp |-> Http(200, JsonBody(TRUE, None,
                        [NoPayload EXCEPT !.token = Some(t),
                                          !.admin = Some(u)])),
              server |-> srv] : t \in Tokens, u \in Users}
      [] req.op = "createArticle" ->
            {[resp |-> Http(201, JsonBody(TRUE, None, NoPayload)),
              server |-> srv]}
      [] req.op \in FetchOps \cup {"getAllArticles"} ->
            {[resp |-> Http(200, JsonBody(TRUE, None,
                        [NoPayload EXCEPT !.articles = Listing(req.op, srv)])),
              server |-> srv]}
      [] req.op \in {"getUserDashboard", "getAdminDashboard"} ->
            {[resp |-> Http(200, JsonBody(TRUE, None,
                        [NoPayload EXCEPT !.data = Some("dashboard")])),
              server |-> srv]}
      [] req.op \in MutationOps ->
            IF Applies(req.op, req.arg, srv)
            THEN {[resp |-> Http(200, JsonBody(TRUE, None, NoPayload)),
                   server |-> Apply(req.op, req.arg, srv)]}
            ELSE {}
      [] req.op = "getAnalytics" ->
            {[resp |-> Http(200, JsonBody(TRUE, None,
                        [NoPayload EXCEPT !.data = Some(req.arg)])),
              server |-> srv]}

Answers(req, srv) ==
    {[resp |-> f, server |-> srv] :
        f \in Failures \cup IF req.op \in AuthOps
                             THEN {Refusal, RefusalWithToken} ELSE {}}
        \cup Successes(req, srv)

\* fetchArticles / fetchPendingArticles / fetchAnalytics up to the await:
\* nothing without a token, else one call.
FetchCalls(name, tok, arg) ==
    IF TruthyString(tok) THEN <<ApiCall(FetchOp(name), arg, "")>> ELSE <<>>

\* The refetch made even when the mutation threw.
M_RefetchAfter_Always(threw) == TRUE

\* The refetch in the catch block instead of the try block.
M_RefetchAfter_OnFailure(threw) == threw

\* After the awaited mutation: fetchArticles() is the last statement of the
\* try block, so it runs when the await did not throw.
RefetchAfter(threw) == ~threw

\* Register navigating to /admin/dashboard on both tabs.
M_RegisterTarget_AlwaysAdmin(tab) == "/admin/dashboard"

\* Register.handleSubmit: where it navigates after login.
RegisterTarget(tab) ==
    IF tab = "admin" THEN "/admin/dashboard" ELSE "/dashboard"

\* if (response.token) in place of if (response.success).
M_Succeeded_HasToken(r) == ~r.threw /\ r.data.payload.token # None

\* handleSubmit after the await, inside try: the call did not throw and
\* if (response.success) passes.
Succeeded(r) == ~r.threw /\ r.data.success

\* The tab read from the component's latest state after the await.
M_SubmittedTab_Current(call, pg) == pg.activeTab

\* activeTab as handleSubmit reads it after the await: the handler is a
\* closure of the render in which the form was submitted, so it is the tab
\* the endpoint was chosen by, whatever tab is shown by now.
SubmittedTab(call, pg) == call.tab

\* A handler whose finally block is missing.
M_Finally_Skipped(pg) == pg

\* finally { setIsLoading(false) }
Finally(pg) == [pg EXCEPT !.isLoading = FALSE]

\* Two values of the search box of the home page.
SearchTerms == {"", "q"}

\* The operation a page fetches its data with when it is mounted.
DataOp(name) ==
    CASE name = "Home" -> "getAllArticles"
      [] name = "Dashboard" -> "getUserDashboard"
      [] name = "AdminDashboard" -> "getAdminDashboard"

\* The mutations that ask confirm() first.
ConfirmedOps == {"unpublishArticle", "deleteArticleAdmin", "deleteArticle"}

\* handleSubmit without the password check.
M_Mismatch_Never(p) == FALSE

\* formData.password !== formData.confirmPassword
Mismatch(p) == p.password # p.confirmPassword

\* The titles of the toasts.
MutationToast(op, threw) ==
    CASE op = "approveArticle" ->
            IF threw THEN "Error approving article" ELSE "Article approved"
      [] op = "rejectArticle" ->
            IF threw THEN "Error rejecting article" ELSE "Article rejected"
      [] op = "unpublishArticle" ->
            IF threw THEN "Error unpublishing article"
            ELSE "Article unpublished"
      [] OTHER ->
            IF threw THEN "Error deleting article" ELSE "Article deleted"

FetchToast(name) ==
    IF name = "AdminPending"
    THEN "Error loading pending articles" ELSE "Error loading articles"

\* What the remote system holds when a page is opened.
InitialServers(name) ==
    IF name \in ListPages \cup {"Home"}
    THEN {[a \in Articles |-> s] : s \in {"pending", "published"}}
    ELSE {NoArticles}

\* A page has just been rendered for the first time, under a session that
\* its route admits: the registration form for a visitor, the admin pages
\* for an admin, the user's list for a user.
PageInit ==
    \E name \in PageNames :
        /\ \E tab \in IF name \in {"Register", "Login"}
                       THEN {"user", "admin"} ELSE {"user"} :
              page = NewPage(name, tab)
        /\ IF name \in {"Register", "Login", "Home"}
           THEN /\ token = None /\ user = None /\ isAdmin = FALSE
                /\ storage = [token |-> None, user |-> None, isAdmin |-> None]
           ELSE \E t \in Tokens :
                   LET s == login(t, PageUser,
                                  name \notin {"MyArticles", "CreateArticle",
                                               "Dashboard"})
                   IN  /\ token = s.token
                       /\ user = s.user
                       /\ isAdmin = s.isAdmin
                       /\ storage = s.storage
        /\ isLoading = FALSE
        /\ mounted = "ready"
        /\ history = <<PagePath(name)>>
        /\ view = name
        /\ redirects = <<>>
        /\ requested = Some(PagePath(name))
        /\ lastOp = "load"
        /\ probe = None
        /\ loadingSets = 1
        /\ net = <<>>
        /\ done = None
        /\ server \in InitialServers(name)

\* What a step of a page leaves alone unless it says otherwise.
sessionVars == <<token, user, isAdmin, isLoading, storage, mounted, probe,
                 loadingSets>>
routeVars == <<history, view, redirects, requested>>

\* useEffect(() => { fetch...() }, []) of a list page or the analytics
\* page, which also sets its loading flag.
MountEffect ==
    /\ page.name \in ListPages \cup {"AdminAnalytics"}
    /\ ~page.effectRan
    /\ LET calls == FetchCalls(page.name, token,
                       IF page.name = "AdminAnalytics"
                       THEN page.selectedPeriod ELSE "")
       IN  /\ net' = net \o calls
           /\ page' = [page EXCEPT
                         !.effectRan = TRUE,
                         !.isLoading = IF page.name = "AdminAnalytics"
                                          /\ calls # <<>>
                                       THEN TRUE ELSE @]
    /\ done' = None
    /\ lastOp' = "effect"
    /\ UNCHANGED <<sessionVars, routeVars, server>>

\* handleApproveArticle / handleRejectArticle / handleUnpublishArticle /
\* handleDeleteArticle(a) up to the await, the prompts answered: the button
\* is on screen when the list is, for an article the list shows.
HandleArticle(op, a) ==
    /\ page.name \in ListPages
    /\ op \in PageMutations(page.name)
    /\ page.effectRan
    /\ ~page.isLoading
    /\ \E x \in page.articles : x.id = a /\ Button(page.name, op, x.status)
    /\ TruthyString(token)
    /\ Len(net) < MaxInFlight
    /\ net' = Append(net, ApiCall(op, a, ""))
    /\ done' = None
    /\ lastOp' = "click"
    /\ UNCHANGED <<sessionVars, routeVars, server, page>>

\* The period select of the analytics page, rendered once data is shown:
\* setSelectedPeriod(p), and the effect that depends on it runs.
SelectPeriod(p) ==
    /\ page.name = "AdminAnalytics"
    /\ page.effectRan
    /\ ~page.isLoading
    /\ page.analyticsData # None
    /\ p # page.selectedPeriod
    /\ Len(net) < MaxInFlight
    /\ LET calls == FetchCalls(page.name, token, p)
       IN  /\ net' = net \o calls
           /\ page' = [page EXCEPT
                         !.selectedPeriod = p,
                         !.isLoading = IF calls # <<>> THEN TRUE ELSE @]
    /\ done' = None
    /\ lastOp' = "select"
    /\ UNCHANGED <<sessionVars, routeVars, server>>

\* Tabs onValueChange={setActiveTab}
SetActiveTab(t) ==
    /\ page.name \in {"Register", "Login"}
    /\ t # page.activeTab
    /\ page' = [page EXCEPT !.activeTab = t]
    /\ done' = None
    /\ lastOp' = "tab"
    /\ UNCHANGED <<sessionVars, routeVars, server, net>>

\* Register.handleInputChange on the two password inputs, which are
\* disabled while the form is loading.
HandleInputChange(field, v) ==
    /\ page.name = "Register"
    /\ ~page.isLoading
    /\ page' = IF field = "password"
               THEN [page EXCEPT !.password = v]
               ELSE [page EXCEPT !.confirmPassword = v]
    /\ page' # page
    /\ done' = None
    /\ lastOp' = "input"
    /\ UNCHANGED <<sessionVars, routeVars, server, net>>

\* Register.handleSubmit up to the await.  The inputs are required and the
\* button is disabled while the form is loading.
HandleSubmit ==
    /\ page.name = "Register"
    /\ ~page.isLoading
    /\ page.password # "" /\ page.confirmPassword # ""
    /\ IF Mismatch(page)
       THEN /\ page' = [page EXCEPT !.toast = Some("Password mismatch")]
            /\ net' = net
       ELSE /\ page' = [page EXCEPT !.isLoading = TRUE]
            /\ net' = Append(net,
                        ApiCall(IF page.activeTab = "admin"
                                THEN "registerAdmin" ELSE "registerUser",
                                "", page.activeTab))
    /\ done' = None
    /\ lastOp' = "submit"
    /\ UNCHANGED <<sessionVars, routeVars, server>>

\* The remote system answers the i-th call in flight.
ServerReply(i) ==
    /\ page.name # "none"
    /\ i \in 1..Len(net)
    /\ net[i].phase = "sent"
    /\ \E ans \in Answers(net[i], server) :
          /\ net' = [net EXCEPT ![i].phase = "replied",
                                ![i].resp = Some(ans.resp)]
          /\ server' = ans.server
    /\ done' = None
    /\ lastOp' = "reply"
    /\ UNCHANGED <<sessionVars, routeVars, page>>

\* fetchArticles / fetchPendingArticles after the await.
ResumeFetch(i) ==
    /\ page.name \in ListPages
    /\ i \in 1..Len(net)
    /\ net[i].phase = "replied"
    /\ net[i].op \in FetchOps
    /\ LET r == request(net[i].resp[1])
       IN  page' = [page EXCEPT
                      !.articles = IF ~r.threw /\ r.data.success
                                   THEN r.data.payload.articles ELSE @,
                      !.toast = IF r.threw
                                THEN Some(FetchToast(page.name)) ELSE @,
                      !.isLoading = FALSE]
    /\ net' = Without(net, i)
    /\ done' = Some(Settled(net[i]))
    /\ lastOp' = "resume"
    /\ UNCHANGED <<sessionVars, routeVars, server>>

\* handle...Article after the await: the toast, and the refetch.
ResumeMutation(i) ==
    /\ page.name \in ListPages
    /\ i \in 1..Len(net)
    /\ net[i].phase = "replied"
    /\ net[i].op \in MutationOps
    /\ LET r == request(net[i].resp[1])
       IN  /\ page' = [page EXCEPT
                         !.toast = Some(MutationToast(net[i].op, r.threw))]
           /\ net' = Without(net, i)
                        \o IF RefetchAfter(r.threw)
                           THEN FetchCalls(page.name, token, "") ELSE <<>>
    /\ done' = Some(Settled(net[i]))
    /\ lastOp' = "resume"
    /\ UNCHANGED <<sessionVars, routeVars, server>>

\* fetchAnalytics after the await.
ResumeAnalytics(i) ==
    /\ page.name = "AdminAnalytics"
    /\ i \in 1..Len(net)
    /\ net[i].phase = "replied"
    /\ net[i].op = "getAnalytics"
    /\ LET r == request(net[i].resp[1])
       IN  page' = [page EXCEPT
                      !.analyticsData = IF ~r.threw /\ r.data.success
                                        THEN r.data.payload.data ELSE @,
                      !.toast = IF r.threw
                                THEN Some("Error loading analytics") ELSE @,
                      !.isLoading = FALSE]
    /\ net' = Without(net, i)
    /\ done' = Some(Settled(net[i]))
    /\ lastOp' = "resume"
    /\ UNCHANGED <<sessionVars, routeVars, server>>

\* Register.handleSubmit after the await: on response.success, login and
\* then navigate, both before the next render; the location is rendered
\* under the new session and the form is gone.
ResumeRegister(i) ==
    /\ page.name = "Register"
    /\ i \in 1..Len(net)
    /\ net[i].phase = "replied"
    /\ net[i].op \in {"registerUser", "registerAdmin"}
    /\ LET r == request(net[i].resp[1])
           tab == SubmittedTab(net[i], page)
       IN  IF Succeeded(r)
           THEN LET l == login(r.data.payload.token[1],
                               Or(r.data.payload.user,
                                  r.data.payload.admin)[1],
                               tab = "admin")
                    s == Settle(Push(history, RegisterTarget(tab)),
                                l.user, l.isAdmin, isLoading)
                IN  /\ token' = l.token
                    /\ user' = l.user
                    /\ isAdmin' = l.isAdmin
                    /\ storage' = l.storage
                    /\ history' = s.history
                    /\ view' = s.view
                    /\ redirects' = s.redirects
                    /\ requested' = Some(RegisterTarget(tab))
                    /\ page' = [NoPage EXCEPT
                                  !.toast = Some("Registration successful")]
           ELSE /\ page' = [page EXCEPT
                              !.toast = IF r.threw
                                        THEN Some("Registration failed")
                                        ELSE @,
                              !.isLoading = FALSE]
                /\ UNCHANGED <<token, user, isAdmin, storage, routeVars>>
    /\ net' = Without(net, i)
    /\ done' = Some(Settled(net[i]))
    /\ lastOp' = "resume"
    /\ UNCHANGED <<isLoading, mounted, probe, loadingSets, server>>

\* Login.handleSubmit up to the await: the inputs are required and the
\* button is disabled while the form is loading; the endpoint is chosen by
\* the tab shown.
LoginSubmit ==
    /\ page.name = "Login"
    /\ ~page.isLoading
    /\ Len(net) < MaxInFlight
    /\ page' = [page EXCEPT !.isLoading = TRUE]
    /\ net' = Append(net, ApiCall(IF page.activeTab = "admin"
                                  THEN "loginAdmin" ELSE "loginUser",
                                  "", page.activeTab))
    /\ done' = None
    /\ lastOp' = "submit"
    /\ UNCHANGED <<sessionVars, routeVars, server>>

\* Login.handleSubmit after the await: on response.success, login, the
\* toast and navigate, all before the next render; the form is gone, the
\* tab it showed last is kept for the record.
ResumeLogin(i) ==
    /\ page.name = "Login"
    /\ i \in 1..Len(net)
    /\ net[i].phase = "replied"
    /\ net[i].op \in {"loginUser", "loginAdmin"}
    /\ LET r == request(net[i].resp[1])
           tab == SubmittedTab(net[i], page)
       IN  IF Succeeded(r)
           THEN LET l == login(r.data.payload.token[1],
                               Or(r.data.payload.user,
                                  r.data.payload.admin)[1],
                               tab = "admin")
                    s == Settle(Push(history, RegisterTarget(tab)),
                                l.user, l.isAdmin, isLoading)
                IN  /\ token' = l.token
                    /\ user' = l.user
                    /\ isAdmin' = l.isAdmin
                    /\ storage' = l.storage
                    /\ history' = s.history
                    /\ view' = s.view
                    /\ redirects' = s.redirects
                    /\ requested' = Some(RegisterTarget(tab))
                    /\ page' = Finally([NoPage EXCEPT
                                  !.toast = Some("Login successful"),
                                  !.activeTab = page.activeTab,
                                  !.was = page.name])
           ELSE /\ page' = Finally([page EXCEPT
                              !.toast = IF r.threw
                                        THEN Some("Login failed")
                                        ELSE @])
                /\ UNCHANGED <<token, user, isAdmin, storage, routeVars>>
    /\ net' = Without(net, i)
    /\ done' = Some(Settled(net[i]))
    /\ lastOp' = "resume"
    /\ UNCHANGED <<isLoading, mounted, probe, loadingSets, server>>

\* CreateArticle.handleSubmit up to the await, the four required inputs
\* filled in (the browser submits no form with an empty required input, so
\* the handler's own check of the fields always passes): nothing without
\* a token.
CreateSubmit ==
    /\ page.name = "CreateArticle"
    /\ ~page.isLoading
    /\ Len(net) < MaxInFlight
    /\ IF TruthyString(token)
       THEN /\ page' = [page EXCEPT !.isLoading = TRUE]
            /\ net' = Append(net, ApiCall("createArticle", "", ""))
       ELSE UNCHANGED <<page, net>>
    /\ done' = None
    /\ lastOp' = "submit"
    /\ UNCHANGED <<sessionVars, routeVars, server>>

\* CreateArticle.handleSubmit after the await.
ResumeCreate(i) ==
    /\ page.name = "CreateArticle"
    /\ i \in 1..Len(net)
    /\ net[i].phase = "replied"
    /\ net[i].op = "createArticle"
    /\ LET r == request(net[i].resp[1])
       IN  IF Succeeded(r)
           THEN LET s == Settle(Push(history, "/my-articles"),
                                user, isAdmin, isLoading)
                IN  /\ history' = s.history
                    /\ view' = s.view
                    /\ redirects' = s.redirects
                    /\ requested' = Some("/my-articles")
                    /\ page' = Finally([NoPage EXCEPT
                                  !.toast = Some("Article created"),
                                  !.was = page.name])
           ELSE /\ page' = Finally([page EXCEPT
                              !.toast = IF r.threw
                                        THEN Some("Error creating article")
                                        ELSE @])
                /\ UNCHANGED routeVars
    /\ net' = Without(net, i)
    /\ done' = Some(Settled(net[i]))
    /\ lastOp' = "resume"
    /\ UNCHANGED <<sessionVars, server>>

\* useEffect(() => { fetchArticles() / fetchDashboardData() }, []) of the
\* home page and the two dashboards, up to the await: the dashboards fetch
\* nothing without a token, the home page sends none.
DataEffect ==
    /\ page.name \in DataPages
    /\ ~page.effectRan
    /\ net' = net \o IF page.name = "Home" \/ TruthyString(token)
                     THEN <<ApiCall(DataOp(page.name), "", "")>> ELSE <<>>
    /\ page' = [page EXCEPT !.effectRan = TRUE]
    /\ done' = None
    /\ lastOp' = "effect"
    /\ UNCHANGED <<sessionVars, routeVars, server>>

\* The search box of the home page, rendered when the page is not loading.
SetSearchTerm(v) ==
    /\ page.name = "Home"
    /\ ~page.isLoading
    /\ v # page.searchTerm
    /\ page' = [page EXCEPT !.searchTerm = v]
    /\ done' = None
    /\ lastOp' = "input"
    /\ UNCHANGED <<sessionVars, routeVars, server, net>>

\* Home.handleSearch up to the await: nothing for an empty search term.
HandleSearch ==
    /\ page.name = "Home"
    /\ ~page.isLoading
    /\ Len(net) < MaxInFlight
    /\ IF page.searchTerm = ""
       THEN UNCHANGED <<page, net>>
       ELSE /\ page' = [page EXCEPT !.isLoading = TRUE]
            /\ net' = Append(net, ApiCall("getAllArticles",
                                          page.searchTerm, ""))
    /\ done' = None
    /\ lastOp' = "submit"
    /\ UNCHANGED <<sessionVars, routeVars, server>>

\* fetchArticles / handleSearch of the home page and fetchDashboardData of
\* the dashboards after the await: the catch block writes to the console
\* and shows nothing.
ResumeData(i) ==
    /\ page.name \in DataPages
    /\ i \in 1..Len(net)
    /\ net[i].phase = "replied"
    /\ net[i].op = DataOp(page.name)
    /\ LET r == request(net[i].resp[1])
       IN  page' = Finally([page EXCEPT
                      !.articles = IF Succeeded(r) /\ page.name = "Home"
                                   THEN r.data.payload.articles ELSE @,
                      !.dashboardData =
                          IF Succeeded(r) /\ page.name # "Home"
                          THEN r.data.payload.data ELSE @])
    /\ net' = Without(net, i)
    /\ done' = Some(Settled(net[i]))
    /\ lastOp' = "resume"
    /\ UNCHANGED <<sessionVars, routeVars, server>>

\* handleUnpublishArticle / handleDeleteArticle(a) with confirm() answered
\* by cancel: the handler returns.
DeclineArticle(op, a) ==
    /\ page.name \in ListPages
    /\ op \in PageMutations(page.name) \cap ConfirmedOps
    /\ page.effectRan
    /\ ~page.isLoading
    /\ \E x \in page.articles : x.id = a /\ Button(page.name, op, x.status)
    /\ TruthyString(token)
    /\ done' = None
    /\ lastOp' = "decline"
    /\ UNCHANGED <<sessionVars, routeVars, server, net, page>>

\* <Link to="/"> on a page, or the browser's back button to the public
\* home: the location changes and the page's component is unmounted, its
\* state gone, while the calls it made stay in flight.
Leave ==
    /\ page.name \in PageNames
    /\ LET s == Settle(Push(history, "/"), user, isAdmin, isLoading)
       IN  /\ history' = s.history
           /\ view' = s.view
           /\ redirects' = s.redirects
    /\ requested' = Some("/")
    /\ page' = [NewPage("unmounted", page.activeTab) EXCEPT
                  !.isLoading = FALSE,
                  !.toast = page.toast,
                  !.was = page.name]
    /\ done' = None
    /\ lastOp' = "leave"
    /\ UNCHANGED <<sessionVars, server, net>>

\* The rest of an async handler whose component was unmounted during the
\* await.  Nothing in the handlers asks whether the component is still
\* there: the state setters of an unmounted component do nothing, while
\* toast(), login(), navigate() and a refetch act as ever.
ResumeUnmounted(i) ==
    /\ page.name = "unmounted"
    /\ i \in 1..Len(net)
    /\ net[i].phase = "replied"
    /\ LET r == request(net[i].resp[1])
           op == net[i].op
           good == Succeeded(r)
           tab == net[i].tab
           target == IF op \in AuthOps THEN RegisterTarget(tab)
                     ELSE "/my-articles"
           said == CASE op \in {"registerUser", "registerAdmin"} ->
                           IF good THEN Some("Registration successful")
                           ELSE IF r.threw THEN Some("Registration failed")
                           ELSE page.toast
                     [] op \in {"loginUser", "loginAdmin"} ->
                           IF good THEN Some("Login successful")
                           ELSE IF r.threw THEN Some("Login failed")
                           ELSE page.toast
                     [] op = "createArticle" ->
                           IF good THEN Some("Article created")
                           ELSE IF r.threw THEN Some("Error creating article")
                           ELSE page.toast
                     [] op \in FetchOps ->
                           IF r.threw THEN Some(FetchToast(page.was))
                           ELSE page.toast
                     [] op = "getAnalytics" ->
                           IF r.threw THEN Some("Error loading analytics")
                           ELSE page.toast
                     [] op \in MutationOps ->
                           Some(MutationToast(op, r.threw))
                     [] OTHER -> page.toast
       IN  /\ page' = [page EXCEPT !.toast = said]
           /\ IF good /\ op \in AuthOps
              THEN LET l == login(r.data.payload.token[1],
                                  Or(r.data.payload.user,
                                     r.data.payload.admin)[1],
                                  tab = "admin")
                   IN  /\ token' = l.token
                       /\ user' = l.user
                       /\ isAdmin' = l.isAdmin
                       /\ storage' = l.storage
              ELSE UNCHANGED <<token, user, isAdmin, storage>>
           /\ IF good /\ op \in AuthOps \cup {"createArticle"}
              THEN LET s == Settle(Push(history, target),
                                   user', isAdmin', isLoading)
                   IN  /\ history' = s.history
                       /\ view' = s.view
                       /\ redirects' = s.redirects
                       /\ requested' = Some(target)
              ELSE UNCHANGED routeVars
           /\ net' = Without(net, i)
                        \o IF op \in MutationOps /\ RefetchAfter(r.threw)
                           THEN FetchCalls(page.was, token, "") ELSE <<>>
    /\ done' = Some(Settled(net[i]))
    /\ lastOp' = "resume"
    /\ UNCHANGED <<isLoading, mounted, probe, loadingSets, server>>

PageNext ==
    \/ LoginSubmit
    \/ \E i \in 1..MaxInFlight : ResumeLogin(i)
    \/ CreateSubmit
    \/ \E i \in 1..MaxInFlight : ResumeCreate(i)
    \/ DataEffect
    \/ \E v \in SearchTerms : SetSearchTerm(v)
    \/ HandleSearch
    \/ \E i \in 1..MaxInFlight : ResumeData(i)
    \/ \E op \in ConfirmedOps, a \in Articles : DeclineArticle(op, a)
    \/ Leave
    \/ \E i \in 1..MaxInFlight : ResumeUnmounted(i)
    \/ MountEffect
    \/ \E op \in MutationOps, a \in Articles : HandleArticle(op, a)
    \/ \E p \in Periods : SelectPeriod(p)
    \/ \E t \in {"user", "admin"} : SetActiveTab(t)
    \/ \E f \in {"password", "confirmPassword"}, v \in Passwords :
          HandleInputChange(f, v)
    \/ HandleSubmit
    \/ \E i \in 1..MaxInFlight : ServerReply(i)
    \/ \E i \in 1..MaxInFlight : ResumeFetch(i)
    \/ \E i \in 1..MaxInFlight : ResumeMutation(i)
    \/ \E i \in 1..MaxInFlight : ResumeAnalytics(i)
    \/ \E i \in 1..MaxInFlight : ResumeRegister(i)

PageSpec == PageInit /\ [][PageNext]_vars

\* ------------------------------------------------------------- claims

EmptyStorage == [token |-> None, user |-> None, isAdmin |-> None]
GuardedPaths == UserPaths \cup AdminPaths
RequestedPath == requested[1]

\* C1: in every state reachable by initialize, login and logout from any
\* storage contents, token and user are both present or both absent.
C1_TokenAndUserTogether == (token = None) <=> (user = None)

\* C2: while isLoading is true the guard, in both flavours, shows the
\* loading indicator at the requested location and issues no redirect,
\* whatever user and isAdmin are.
C2_LoadingRendersIndicator ==
    (isLoading /\ lastOp = "navigate" /\ RequestedPath \in GuardedPaths)
        => /\ view = "Loading"
           /\ redirects = <<>>
           /\ Location = RequestedPath

C2_Witness ==
    /\ isLoading /\ user # None /\ isAdmin
    /\ lastOp = "navigate" /\ RequestedPath = "/admin/users"
    /\ view = "Loading"

\* C3: with isLoading false and user null, a request for any guarded route
\* ends on the login view, the single redirect to /login taking the place
\* of the requested history entry; the requested view is not rendered.
C3_UnauthenticatedRedirectsToLogin ==
    [][ (~isLoading /\ user = None /\ lastOp' = "navigate"
            /\ requested'[1] \in GuardedPaths)
        => /\ view' = "Login"
           /\ redirects' = <<"/login">>
           /\ history' = Push(history, "/login") ]_vars

C3_Witness ==
    /\ ~isLoading /\ user = None /\ isAdmin
    /\ lastOp = "navigate" /\ RequestedPath = "/my-articles"
    /\ view = "Login"
    /\ history = <<"/", "/login">>

\* C4: a session with a user and isAdmin false has finished loading; an
\* admin-only route requested under it is replaced by /dashboard and shows
\* the dashboard, a route that only needs authentication shows its view,
\* and no admin view is on screen.
C4_NonAdminGuard ==
    (user # None /\ ~isAdmin)
        => /\ ~isLoading
           /\ view \notin AdminViews
           /\ (lastOp \in {"navigate", "initialize"} /\ requested # None)
                => /\ RequestedPath \in AdminPaths
                        => /\ view = "Dashboard"
                           /\ Location = "/dashboard"
                           /\ redirects = <<"/dashboard">>
                   /\ RequestedPath \in UserPaths
                        => /\ view = Route(RequestedPath).element
                           /\ Location = RequestedPath
                           /\ redirects = <<>>

C4_Witness ==
    /\ user # None /\ ~isAdmin
    /\ lastOp = "navigate" /\ RequestedPath = "/admin/users"
    /\ view = "Dashboard" /\ Location = "/dashboard"

\* C5: a user view is on screen only when loading has finished and a user
\* is present, an admin view only when isAdmin holds as well; while the
\* application is mounted, /, /article/:id, /login and /register show
\* their view under every session.
C5_RouteAccess ==
    /\ view \in UserViews => (~isLoading /\ user # None)
    /\ view \in AdminViews => (~isLoading /\ user # None /\ isAdmin)
    /\ (mounted # "crashed"
            /\ Location \in {"/", "/article/a1", "/login", "/register"})
        => view = Route(Location).element

C5_Witness ==
    /\ view = "AdminUsers" /\ isAdmin /\ user # None /\ ~isLoading
    /\ lastOp = "navigate"

\* C6: once initialize has run, whatever the three storage keys held,
\* isLoading is false and was set to false exactly once.
C6_InitializeEndsLoading ==
    mounted # "mounting" => (isLoading = FALSE /\ loadingSets = 1)

\* C7: login with a well-formed triple (a non-empty token, a User, an
\* admin flag or none), then a reload and the mount effect, gives the
\* session the same token and user, and the given isAdmin, false when the
\* third argument was omitted.
C7_LoginSurvivesReload ==
    (probe # None /\ probe[1].stage = "initialize" /\ probe[1].token # "")
        => /\ mounted = "ready"
           /\ isLoading = FALSE
           /\ token = Some(probe[1].token)
           /\ user = Some(probe[1].user)
           /\ isAdmin = (probe[1].adminArg = Some(TRUE))

C7_Witness ==
    /\ probe # None /\ probe[1].stage = "initialize"
    /\ probe[1].adminArg = None
    /\ token = Some("t1") /\ user # None /\ ~isAdmin

\* C8: after logout, however many logins came before it, token and user
\* are null, isAdmin is false and storage holds none of the three keys.
C8_LogoutRestoresFirstRun ==
    lastOp = "logout"
        => /\ token = None
           /\ user = None
           /\ isAdmin = FALSE
           /\ storage = EmptyStorage

C8_Witness ==
    /\ lastOp = "logout"
    /\ probe # None /\ probe[1].stage = "logout" /\ probe[1].over
    /\ storage = EmptyStorage

\* C9: in every reachable state where user is absent, isAdmin is false.
C9_NoUserNotAdmin == user = None => isAdmin = FALSE

\* C10: after login the three in-memory fields are the arguments, and the
\* three storage keys hold the token, a serialization that parses back to
\* the user, and the text true or false; nothing of the session before
\* it is left.
C10_LoginOverwrites ==
    lastOp = "login"
        => /\ probe # None
           /\ token = Some(probe[1].token)
           /\ user = Some(probe[1].user)
           /\ isAdmin = (probe[1].adminArg = Some(TRUE))
           /\ storage.token = Some(probe[1].token)
           /\ storage.user # None
           /\ JSONparse(storage.user[1]) = [ok |-> TRUE, value |-> Some(probe[1].user)]
           /\ storage.isAdmin = Some(IF isAdmin THEN "true" ELSE "false")

C10_Witness ==
    /\ lastOp = "login"
    /\ probe # None /\ probe[1].over
    /\ storage.isAdmin = Some("true")

\* A stored session as login leaves it: a non-empty token and a serialized
\* User.
ValidStored(st) ==
    /\ TruthyString(st.token)
    /\ st.user \in {Some(JSONstringify(u)) : u \in Users}

\* C11: once initialize has run, the Session holds the stored token, the
\* stored user and isAdmin = (stored isAdmin is "true") if a token and a
\* user were both stored, and is empty otherwise, whatever isAdmin stored.
C11_PopulatedIffBothStored ==
    (lastOp = "initialize")
        => IF TruthyString(storage.token) /\ TruthyText(storage.user)
           THEN /\ token = storage.token
                /\ user # None
                /\ JSONstringify(user[1]) = storage.user[1]
                /\ isAdmin = (storage.isAdmin = Some("true"))
           ELSE /\ token = None
                /\ user = None
                /\ isAdmin = FALSE

\* C12: logout in the logged-out state (an empty Session and none of the
\* three keys, as at first run or after a logout) changes neither the
\* Session nor storage, so a second logout adds nothing to the first.
C12_LogoutIdempotent ==
    [][ ( /\ lastOp' = "logout"
          /\ \/ lastOp = "logout"
             \/ /\ token = None /\ user = None /\ isAdmin = FALSE
                /\ storage = EmptyStorage )
        => /\ session' = session
           /\ storage' = storage ]_vars

C12_Witness ==
    /\ lastOp = "logout"
    /\ probe # None /\ probe[1].stage = "logout2"
    /\ token = None /\ user = None /\ ~isAdmin /\ storage = EmptyStorage

\* C13: from the load of a guarded location to the end of initialization
\* the loading indicator is shown and no redirect is issued; with a valid
\* stored session (and isAdmin stored as "true" for an admin route) the
\* end of initialization puts the requested view on screen, again without
\* a redirect.
C13_NoFlashRedirect ==
    /\ (mounted = "mounting" /\ Location \in GuardedPaths)
        => (view = "Loading" /\ redirects = <<>>)
    /\ ( /\ lastOp = "initialize" /\ requested # None
         /\ RequestedPath \in GuardedPaths
         /\ ValidStored(storage)
         /\ RequestedPath \in AdminPaths => storage.isAdmin = Some("true") )
        => /\ view = Route(RequestedPath).element
           /\ Location = RequestedPath
           /\ redirects = <<>>

C13_Witness ==
    /\ lastOp = "initialize" /\ RequestedPath = "/admin/users"
    /\ probe # None /\ probe[1].stage = "initialize"
    /\ view = "AdminUsers" /\ redirects = <<>>

\* The response the last resumed call got, and what request did with it.
DoneResp == done[1].resp
DoneResult == done[1].result

NumFetches(n) == Cardinality({i \in 1..Len(n) : n[i].op \in FetchOps})

\* C15: every invocation of an operation makes exactly one HTTP call,
\* whatever the answer: a step invokes at most one operation, every call
\* in flight or resumed has called fetch once, and the step that resumes a
\* call that threw (a failure status, no answer, a body that is not JSON)
\* issues no call, in the client or in the page that awaited it.
C15_OneCallPerInvocation ==
    [][ /\ Len(net') <= Len(net) + 1
        /\ \A i \in 1..Len(net') : net'[i].fetches = 1
        /\ done' # None
            => /\ done'[1].fetches = 1
               /\ done'[1].result.threw => Len(net') = Len(net) - 1 ]_vars

C15_Witness ==
    /\ page.name = "AdminArticles"
    /\ done # None
    /\ done[1].op = "approveArticle"
    /\ done[1].resp = NetworkError
    /\ done[1].result.threw
    /\ done[1].fetches = 1
    /\ net = <<>>

\* C16: submitting the registration form on the user tab with equal
\* passwords issues exactly one registerUser call; when the call returns
\* success, the session and storage hold the returned token and user with
\* isAdmin false, the location is /dashboard and the guard renders the
\* dashboard with no redirect, and no further call is issued.
C16_RegisterUser ==
    [][ /\ ( /\ lastOp' = "submit"
             /\ page.name = "Register"
             /\ page.activeTab = "user"
             /\ page.password = page.confirmPassword )
            => /\ net = <<>>
               /\ Len(net') = 1
               /\ net'[1].op = "registerUser"
               /\ net'[1].fetches = 1
        /\ ( /\ done' # None
             /\ done'[1].op = "registerUser"
             /\ ~done'[1].result.threw
             /\ done'[1].result.data.success )
            => LET d == done'[1].result.data.payload
               IN  /\ token' = d.token
                   /\ user' = d.user
                   /\ isAdmin' = FALSE
                   /\ storage' = [token |-> d.token,
                                  user |-> Some(JSONstringify(d.user[1])),
                                  isAdmin |-> Some("false")]
                   /\ history' = Push(history, "/dashboard")
                   /\ view' = "Dashboard"
                   /\ redirects' = <<>>
                   /\ net' = <<>> ]_vars

C16_Witness ==
    /\ done # None
    /\ done[1].op = "registerUser"
    /\ ~done[1].result.threw
    /\ done[1].result.data.success
    /\ Location = "/dashboard"
    /\ view = "Dashboard"
    /\ user = done[1].result.data.payload.user
    /\ ~isAdmin

\* C17: submitting the registration form with password different from
\* confirmPassword issues no call, shows the 'Password mismatch' toast, and
\* leaves the session, storage, the history and the view as they were.
C17_MismatchSubmitsNothing ==
    [][ (lastOp' = "submit" /\ page.password # page.confirmPassword)
            => /\ net' = <<>>
               /\ net = <<>>
               /\ page'.toast = Some("Password mismatch")
               /\ session' = session
               /\ storage' = storage
               /\ history' = history
               /\ view' = view ]_vars

C17_Witness ==
    /\ lastOp = "submit"
    /\ page.name = "Register"
    /\ page.password # page.confirmPassword
    /\ page.toast = Some("Password mismatch")
    /\ net = <<>>
    /\ view = "Register"

\* C18: approving an article issues the approve call and no refetch with
\* it; the step that resumes an approve call that succeeded issues exactly
\* one fetch of the page's list; and a list fetch is issued by no step but
\* the mount effect and the resumption of a mutation that succeeded, so
\* never before the approve response has arrived.
C18_ApproveThenOneRefetch ==
    [][ /\ ( /\ lastOp' = "click"
             /\ net'[Len(net')].op = "approveArticle" )
            => /\ net' = Append(net, net'[Len(net')])
               /\ net'[Len(net')].phase = "sent"
        /\ ( /\ done' # None
             /\ done'[1].op = "approveArticle"
             /\ ~done'[1].result.threw )
            => /\ NumFetches(net') = NumFetches(net) + 1
               /\ Len(net') = Len(net)
               /\ net'[Len(net')].op = FetchOp(page.was)
               /\ net'[Len(net')].phase = "sent"
        /\ NumFetches(net') > NumFetches(net)
            => \/ lastOp' = "effect"
               \/ /\ done' # None
                  /\ done'[1].op \in MutationOps
                  /\ ~done'[1].result.threw ]_vars

C18_Witness ==
    /\ page.name = "AdminPending"
    /\ done # None
    /\ done[1].op = "approveArticle"
    /\ done[1].arg = "A1"
    /\ ~done[1].result.threw
    /\ Len(net) = 1
    /\ net[1].op = "getPendingArticles"
    /\ net[1].phase = "sent"

\* C19: once every call of a list page has settled, the last of them a
\* list fetch that succeeded, the list on screen is what the remote system
\* holds after every mutation it has completed.
C19_RefetchReflectsMutations ==
    ( /\ page.name \in ListPages
      /\ net = <<>>
      /\ done # None
      /\ done[1].op \in FetchOps
      /\ ~done[1].result.threw )
        => page.articles = Listing(FetchOp(page.name), server)

\* C20: a page with a call in flight shows its loading indicator.
C20_LoadingWhileOutstanding ==
    (page.name \in PageNames /\ net # <<>>) => page.isLoading

\* C27: once the mount effect has run, whatever logins and logouts have
\* followed, storage and memory agree: with a user in memory the three
\* keys hold the token, the serialized user and the isAdmin flag of the
\* session; with none, no key is stored.
C27_StorageAgreesWithMemory ==
    mounted = "ready"
        => IF user # None
           THEN storage = [token |-> token,
                           user |-> Some(JSONstringify(user[1])),
                           isAdmin |-> Some(BoolToString(isAdmin))]
           ELSE storage = EmptyStorage

\* C28: a logout triggered while a guarded view is on screen leaves no
\* guarded view there: the sidebar's logout ends on /login through the
\* guard's redirect, the navbar's on the public home page; and no guarded
\* view is ever on screen without a user.
C28_LogoutLeavesGuardedView ==
    [][ /\ (lastOp' = "logout" /\ view \in UserViews \cup AdminViews)
            => /\ user' = None
               /\ \/ /\ view' = "Login"
                     /\ history'[Len(history')] = "/login"
                     /\ redirects' = <<"/login">>
                  \/ /\ view' = "Home"
                     /\ history'[Len(history')] = "/"
                     /\ redirects' = <<>>
        /\ user' = None => view' \notin UserViews \cup AdminViews ]_vars

C28_Witness ==
    /\ lastOp = "logout"
    /\ requested = None
    /\ redirects = <<"/login">>
    /\ view = "Login"
    /\ Location = "/login"
    /\ user = None

\* C30: on the analytics page, once every call has settled, the data on
\* screen is that of the selected period.
C30_AnalyticsOfSelectedPeriod ==
    (page.name = "AdminAnalytics" /\ net = <<>> /\ page.analyticsData # None)
        => page.analyticsData = Some(page.selectedPeriod)

\* C24: no operation of the API client touches the session or storage:
\* invoking it, its answer (success, failure status, 401 among them, or no
\* answer) and its return or throw leave token, user, isAdmin and the
\* three storage keys as they were.
C24_ApiLeavesSessionAlone ==
    [][ /\ token' = token
        /\ user' = user
        /\ isAdmin' = isAdmin
        /\ storage' = storage ]_vars

C24_Witness ==
    /\ done # None
    /\ done[1].op = "getAdminDashboard"
    /\ ~DoneResp.failed
    /\ DoneResp.status = 401
    /\ DoneResult.threw
    /\ token = Some("t1")
    /\ user # None
    /\ isAdmin
    /\ storage.token = Some("t1")
    /\ storage.isAdmin = Some("true")

\* C21: when a view is unmounted while one of its requests is outstanding,
\* the response is unused: the step that receives it changes neither the
\* Session, nor the storage, nor the route, nor anything shown -- for the
\* login, registration and create-article submissions and the list fetches.
C21_UnmountedResponseUnused ==
    [][ (page.name = "unmounted" /\ done' # None)
            => /\ token' = token /\ user' = user /\ isAdmin' = isAdmin
               /\ storage' = storage
               /\ history' = history /\ view' = view
               /\ page'.toast = page.toast ]_vars

\* C22: every failed request of every view is surfaced as a notification,
\* none is swallowed: when a call of the page on screen has just thrown (a
\* status outside 2xx, or no answer), a notification is shown.
C22_ErrorsSurfaced ==
    (done # None /\ DoneResult.threw /\ page.name \in PageNames)
        => page.toast # None

\* C23: after any request of a view completes, by success or by failure,
\* the view's loading flag is false again, so that the same action can be
\* triggered again (the submit button and the inputs are disabled by the
\* flag alone).
C23_LoadingFlagReset ==
    (done # None /\ page.name # "unmounted") => ~page.isLoading

\* A create-article submission has failed: the error is shown and the form
\* is enabled again.
C23_Witness ==
    /\ done # None /\ done[1].op = "createArticle" /\ DoneResult.threw
    /\ page.name = "CreateArticle" /\ ~page.isLoading
    /\ page.toast = Some("Error creating article")
    /\ view = "CreateArticle"

\* C25: in Login and Register, login() and the navigation to a dashboard
\* happen only if the request did not throw and the body's success is
\* truthy: a step that resumes a login or registration call which threw, or
\* whose 2xx body says success false, leaves Session, storage and route
\* unchanged, and one that succeeded logs in and navigates.
C25_LoginOnlyOnSuccess ==
    [][ (done' # None /\ done'[1].op \in AuthOps)
            => IF ~done'[1].result.threw /\ done'[1].result.data.success
               THEN /\ token' = done'[1].result.data.payload.token
                    /\ user' # None
                    /\ requested' \in {Some("/dashboard"),
                                       Some("/admin/dashboard")}
                    /\ history'[Len(history')] = requested'[1]
                    /\ view' \in {"Dashboard", "AdminDashboard"}
               ELSE /\ token' = token /\ user' = user /\ isAdmin' = isAdmin
                    /\ storage' = storage
                    /\ history' = history /\ view' = view
                    /\ redirects' = redirects
                    /\ requested' = requested ]_vars

\* The login endpoint has answered 200 with success false, with a token and
\* a user in the body: nobody is logged in and the form is still shown.
C25_Witness ==
    /\ done # None /\ done[1].op = "loginUser"
    /\ ~DoneResult.threw /\ ~DoneResult.data.success
    /\ DoneResult.data.payload.token = Some("t1")
    /\ user = None /\ token = None /\ storage = EmptyStorage
    /\ view = "Login" /\ page.name = "Login" /\ history = <<"/login">>

\* C26: the isAdmin flag passed to login() is true exactly when the request
\* was sent to the admin endpoint, and the navigation target matches it
\* (/admin/dashboard for admin, /dashboard otherwise), even if the tab is
\* switched while the request is in flight.
C26_AdminFlagMatchesEndpoint ==
    (done # None /\ done[1].op \in AuthOps
        /\ ~DoneResult.threw /\ DoneResult.data.success)
        => LET admin == done[1].op \in {"loginAdmin", "registerAdmin"}
           IN  /\ isAdmin = admin
               /\ storage.isAdmin = Some(BoolToString(admin))
               /\ requested = Some(IF admin THEN "/admin/dashboard"
                                   ELSE "/dashboard")
               /\ view = IF admin THEN "AdminDashboard" ELSE "Dashboard"

\* A login sent to the admin endpoint has succeeded after the visitor had
\* switched to the user tab: the Session is an admin's, on the admin
\* dashboard.
C26_Witness ==
    /\ done # None /\ done[1].op = "loginAdmin" /\ done[1].tab = "admin"
    /\ ~DoneResult.threw /\ DoneResult.data.success
    /\ page.was = "Login" /\ page.name = "none" /\ page.activeTab = "user"
    /\ isAdmin /\ view = "AdminDashboard" /\ Location = "/admin/dashboard"

\* C29: when a mutating request fails, no refetch is issued and the list is
\* unchanged; when the confirmation of a delete or an unpublish is
\* declined, neither the mutation nor a refetch is issued.
C29_NoRefetchAfterFailure ==
    [][ /\ (done' # None /\ done'[1].op \in MutationOps
               /\ done'[1].result.threw)
            => /\ Len(net') = Len(net) - 1
               /\ NumFetches(net') = NumFetches(net)
               /\ page'.articles = page.articles
               /\ server' = server
        /\ lastOp' = "decline"
            => /\ net' = net
               /\ page'.articles = page.articles
               /\ server' = server ]_vars

\* On the user's list a delete has failed, leaving the article listed and
\* nothing in flight, and then a second delete was declined at the prompt.
C29_Witness ==
    /\ lastOp = "decline" /\ page.name = "MyArticles"
    /\ page.toast = Some("Error deleting article")
    /\ net = <<>>
    /\ page.articles # {}
    /\ \A x \in page.articles : server[x.id] = x.status

====
